---- MODULE Spec2Model ----
(***************************************************************************)
(* dsPIC33FJ32MC204 firmware: the system lifecycle of config.c             *)
(* (src/unnamed/part_000, declarations in src/CONFIG/config.h) and the ADC *)
(* driver of src/ADC/ADC.c.                                                *)
(*                                                                         *)
(* One foreground context (the application) calls the public functions;    *)
(* its position inside the function it is executing is pc.  Every volatile *)
(* access of the C code is one step, so that the other contexts can run    *)
(* between two of them:                                                    *)
(*   - the interrupt context, which runs only while interrupts are enabled *)
(*     and calls SYSTEM_Wakeup() (part_000:129-134);                       *)
(*   - the converter hardware, which ends a conversion in flight by        *)
(*     loading ADC1BUF0 and setting AD1CON1.DONE.                          *)
(***************************************************************************)
EXTENDS Integers, Sequences, FiniteSets, TLC

VARIABLES
    system_state,     \* part_000:34  static volatile System_State_t
    interrupts,       \* CPU interrupt enable, __builtin_{en,dis}able_interrupts
    LATB, TRISB,      \* port B output latch; set of RB0..RB7 pins that are inputs
    AD1CON1,          \* [ADON, SAMP, DONE, FORM, SSRC, ASAM]
    AD1CON2,          \* [SMPI]
    AD1CON3,          \* [SAMC, ADCS]
    AD1CHS0,          \* [CH0SA]
    ADC1BUF0,         \* 16-bit result buffer
    adc_last_result,  \* ADC.c:19
    converting,       \* hardware: a conversion is in flight
    conv_ch,          \* hardware: the input held by the sample capacitor
    pc,               \* position of the application
    cur_op,           \* public function the application is inside ("none" when idle)
    channel,          \* parameter of ADC_StartSingle / ADC_ReadSingleBlocking
    i,                \* ADC.c:81  loop variable of the acquisition delay
    r,                \* ADC.c:100,122  local r
    ret,              \* value handed back by the function returning: <<>> or <<v>>
    prev_op,          \* history: the function the application completed last
    entry_state,      \* history: system_state when the current function was called
    gate_trace,       \* history: the last calls of the interrupt gate, oldest first
    woken,            \* history: SYSTEM_Wakeup() ran since EnterSleep wrote SLEEP
    missed,           \* history: SYSTEM_Wakeup() ran in EnterSleep before that write
    buf_fresh,        \* history: ADC1BUF0 was loaded by the conversion started last
    nb,               \* history: progress of a Start / poll / GetResult sequence
    caps,             \* build: the converter registers <xc.h> defines (#ifdef)
    osc_mode          \* build: the CONFIG_OSC_ option config.h defines

sysvars == <<system_state, interrupts, LATB, TRISB>>
adcvars == <<AD1CON1, AD1CON2, AD1CON3, AD1CHS0, ADC1BUF0, adc_last_result>>
hwvars  == <<converting, conv_ch>>
appvars == <<pc, cur_op, channel, i, r, ret>>
histvars == <<prev_op, entry_state, gate_trace, woken, missed, buf_fresh, nb>>
build == <<caps, osc_mode>>
vars == <<sysvars, adcvars, hwvars, appvars, histvars, build>>

(***************************************************************************)
(* Program constants.                                                      *)
(***************************************************************************)
SYS_STATE_INIT  == 0
SYS_STATE_READY == 1
SYS_STATE_BUSY  == 2
SYS_STATE_ERROR == 3
SYS_STATE_SLEEP == 4
System_State_t == {SYS_STATE_INIT, SYS_STATE_READY, SYS_STATE_BUSY,
                   SYS_STATE_ERROR, SYS_STATE_SLEEP}

\* config.h:36..39: the oscillator options, of which the build defines one;
\* "none" is a build that defines none of them (the #else of config.h:149).
OscModes == {"CONFIG_OSC_INTERNO_PLL", "CONFIG_OSC_INTERNO_SIMPLE",
             "CONFIG_OSC_EXTERNO_PLL", "CONFIG_OSC_EXTERNO_SIMPLE", "none"}

\* config.h:36  #define CONFIG_OSC_INTERNO_PLL
SelectedOscMode == "CONFIG_OSC_INTERNO_PLL"

\* config.h:88..161, the #if / #elif chain, one branch per option.
FOSC_PRIM(mode) ==
    CASE mode = "CONFIG_OSC_INTERNO_PLL"    -> 8000000
      [] mode = "CONFIG_OSC_INTERNO_SIMPLE" -> 7370000
      [] mode = "CONFIG_OSC_EXTERNO_PLL"    -> 8000000
      [] mode = "CONFIG_OSC_EXTERNO_SIMPLE" -> 7370000
      [] OTHER                              -> 7370000

FOSC(mode) ==
    CASE mode = "CONFIG_OSC_INTERNO_PLL"    -> 80000000
      [] mode = "CONFIG_OSC_INTERNO_SIMPLE" -> FOSC_PRIM(mode)
      [] mode = "CONFIG_OSC_EXTERNO_PLL"    -> 80000000
      [] mode = "CONFIG_OSC_EXTERNO_SIMPLE" -> FOSC_PRIM(mode)
      [] OTHER                              -> FOSC_PRIM(mode)

\* A cycle clock that is the system clock itself.
FCY_NotHalved(mode) == FOSC(mode)

\* #define FCY (FOSC/2UL)
FCY(mode) == FOSC(mode) \div 2

ADC_SAMPLE_TIME == 4
ADC_ADCS == 4
ADC_RESOLUTION_BITS == 12
ADC_MAX_VALUE == (2 ^ ADC_RESOLUTION_BITS) - 1
AcqDelayIterations == 60

\* Width of the AD1CHS0.CH0SA bit-field the uint8_t channel is assigned to.
CH0SA_BITS == 5

PortBLedPins == 0 .. 7

\* The special function registers of the converter that ADC.c tests with
\* #ifdef: the device header defines a macro for each register the part has.
ConverterRegisters == {"AD1CON1", "AD1CON2", "AD1CON3", "AD1CHS0", "ADC1BUF0"}

(***************************************************************************)
(* Bounds of the model.                                                    *)
(***************************************************************************)
\* Number of multiplexer inputs of the converter the channel argument may name.
ChannelCount == 4
\* How many calls the history of the interrupt gate keeps.
GateTraceLen == 3

\* Channel arguments the application passes: in range, out of range, and
\* wider than the CH0SA field.
ChannelInputs == {0, ChannelCount - 1, 9, 35}

\* What ADC1BUF0 may hold before the first conversion (undefined at reset).
ResetBufValues == {0, 4095, 4096 + 5, 8192, 16384, 32768, 65535}

\* What LATB may hold at reset.
ResetLatValues == {0, 255}

\* The 12-bit reading the hardware produces for the voltage on each input.
AnalogLevel(ch) == IF ch = 0 THEN 5 ELSE IF ch = ChannelCount - 1 THEN 4095 ELSE 2048 + ch

NoValue == <<>>


(***************************************************************************)
(* The application calling and leaving a public function.                  *)
(***************************************************************************)
AppCall(op, entry) ==
    /\ pc = "idle"
    /\ pc' = entry
    /\ cur_op' = op
    /\ entry_state' = <<system_state>>
    /\ ret' = NoValue
    /\ UNCHANGED build

ReturnPcs == {"init_ret", "deinit_ret", "sleep_ret", "wk_ret", "en_ret", "dis_ret",
              "clk_ret", "gs_ret"}

\* The function returns: the caller is back in its own code.
AppReturn ==
    /\ pc \in ReturnPcs
    /\ pc' = "idle"
    /\ prev_op' = cur_op
    /\ cur_op' = "none"
    /\ entry_state' = NoValue
    /\ ret' = NoValue
    /\ woken' = FALSE
    /\ missed' = FALSE
    /\ UNCHANGED <<build, sysvars, adcvars, hwvars, channel, i, r, gate_trace, buf_fresh, nb>>

(***************************************************************************)
(* InterruptGate: part_000:172-192, built with XC16 (__XC16__ defined).    *)
(***************************************************************************)
PushGate(t, c) ==
    LET s == Append(t, c) IN IF Len(s) > GateTraceLen THEN Tail(s) ELSE s

\* A gate that counts nested Disable calls, which the code does not.
SYSTEM_EnableInterrupts_Nesting ==
    /\ interrupts' = ~(/\ Len(gate_trace) >= 2
                       /\ gate_trace[Len(gate_trace)] = "Disable"
                       /\ gate_trace[Len(gate_trace) - 1] = "Disable")
    /\ gate_trace' = PushGate(gate_trace, "Enable")

SYSTEM_EnableInterrupts ==
    /\ interrupts' = TRUE
    /\ gate_trace' = PushGate(gate_trace, "Enable")

SYSTEM_DisableInterrupts ==
    /\ interrupts' = FALSE
    /\ gate_trace' = PushGate(gate_trace, "Disable")

Call_EnableInterrupts ==
    /\ AppCall("SYSTEM_EnableInterrupts", "en_body")
    /\ UNCHANGED <<sysvars, adcvars, hwvars, channel, i, r,
                   prev_op, gate_trace, woken, missed, buf_fresh, nb>>

Do_EnableInterrupts ==
    /\ pc = "en_body"
    /\ SYSTEM_EnableInterrupts
    /\ pc' = "en_ret"
    /\ UNCHANGED <<build, system_state, LATB, TRISB, adcvars, hwvars, cur_op, channel, i, r, ret,
                   prev_op, entry_state, woken, missed, buf_fresh, nb>>

Call_DisableInterrupts ==
    /\ AppCall("SYSTEM_DisableInterrupts", "dis_body")
    /\ UNCHANGED <<sysvars, adcvars, hwvars, channel, i, r,
                   prev_op, gate_trace, woken, missed, buf_fresh, nb>>

Do_DisableInterrupts ==
    /\ pc = "dis_body"
    /\ SYSTEM_DisableInterrupts
    /\ pc' = "dis_ret"
    /\ UNCHANGED <<build, system_state, LATB, TRISB, adcvars, hwvars, cur_op, channel, i, r, ret,
                   prev_op, entry_state, woken, missed, buf_fresh, nb>>

(***************************************************************************)
(* SYSTEM_Initialize: part_000:76-92, with ports_init: part_000:39-70      *)
(* (LATB, CONFIG_PORT_B_ENABLED and TRISBbits defined).                    *)
(***************************************************************************)
TrisPcs == <<"init_tris0", "init_tris1", "init_tris2", "init_tris3",
             "init_tris4", "init_tris5", "init_tris6", "init_tris7">>

\* From the call of SYSTEM_DisableInterrupts() returning to the call of
\* SYSTEM_EnableInterrupts(): ports_init() and the write of READY.
InitCriticalPcs == {"init_latb", "init_state", "init_enable"}
                       \cup {TrisPcs[k] : k \in 1 .. Len(TrisPcs)}

Call_Initialize ==
    /\ AppCall("SYSTEM_Initialize", "init_disable")
    /\ UNCHANGED <<sysvars, adcvars, hwvars, channel, i, r,
                   prev_op, gate_trace, woken, missed, buf_fresh, nb>>

\* An Initialize that leaves the interrupts as they are.
SYSTEM_Initialize_NoDisable ==
    /\ pc = "init_disable"
    /\ pc' = "init_latb"
    /\ UNCHANGED <<build, sysvars, adcvars, hwvars, cur_op, channel, i, r, ret, histvars>>

SYSTEM_Initialize_Disable ==
    /\ pc = "init_disable"
    /\ SYSTEM_DisableInterrupts
    /\ pc' = "init_latb"
    /\ UNCHANGED <<build, system_state, LATB, TRISB, adcvars, hwvars, cur_op, channel, i, r, ret,
                   prev_op, entry_state, woken, missed, buf_fresh, nb>>

ports_init_LATB ==
    /\ pc = "init_latb"
    /\ LATB' = 0
    /\ pc' = TrisPcs[1]
    /\ UNCHANGED <<build, system_state, interrupts, TRISB, adcvars, hwvars, cur_op, channel, i, r,
                   ret, histvars>>

ports_init_TRISB ==
    \E k \in 1 .. Len(TrisPcs) :
        /\ pc = TrisPcs[k]
        /\ TRISB' = TRISB \ {k - 1}
        /\ pc' = IF k < Len(TrisPcs) THEN TrisPcs[k + 1] ELSE "init_state"
        /\ UNCHANGED <<build, system_state, interrupts, LATB, adcvars, hwvars, cur_op, channel,
                       i, r, ret, histvars>>

\* An Initialize that only leaves the INIT state.
SYSTEM_Initialize_SetReady_OnlyFromInit ==
    /\ pc = "init_state"
    /\ system_state' = IF system_state = SYS_STATE_INIT THEN SYS_STATE_READY
                       ELSE system_state
    /\ pc' = "init_enable"
    /\ UNCHANGED <<build, interrupts, LATB, TRISB, adcvars, hwvars, cur_op, channel, i, r, ret,
                   histvars>>

SYSTEM_Initialize_SetReady ==
    /\ pc = "init_state"
    /\ system_state' = SYS_STATE_READY
    /\ pc' = "init_enable"
    /\ UNCHANGED <<build, interrupts, LATB, TRISB, adcvars, hwvars, cur_op, channel, i, r, ret,
                   histvars>>

SYSTEM_Initialize_Enable ==
    /\ pc = "init_enable"
    /\ SYSTEM_EnableInterrupts
    /\ pc' = "init_ret"
    /\ UNCHANGED <<build, system_state, LATB, TRISB, adcvars, hwvars, cur_op, channel, i, r, ret,
                   prev_op, entry_state, woken, missed, buf_fresh, nb>>

(***************************************************************************)
(* SYSTEM_Deinitialize: part_000:94-104.                                   *)
(***************************************************************************)
Call_Deinitialize ==
    /\ AppCall("SYSTEM_Deinitialize", "deinit_tris")
    /\ UNCHANGED <<sysvars, adcvars, hwvars, channel, i, r,
                   prev_op, gate_trace, woken, missed, buf_fresh, nb>>

\* A Deinitialize that also turns the converter off (the option the comment
\* of part_000:102 leaves open).
SYSTEM_Deinitialize_TRISB_AdcOff ==
    /\ pc = "deinit_tris"
    /\ TRISB' = TRISB \cup PortBLedPins
    /\ AD1CON1' = [AD1CON1 EXCEPT !.ADON = 0]
    /\ pc' = "deinit_state"
    /\ UNCHANGED <<build, system_state, interrupts, LATB, AD1CON2, AD1CON3, AD1CHS0, ADC1BUF0,
                   adc_last_result, hwvars, cur_op, channel, i, r, ret, histvars>>

SYSTEM_Deinitialize_TRISB ==
    /\ pc = "deinit_tris"
    /\ TRISB' = TRISB \cup PortBLedPins
    /\ pc' = "deinit_state"
    /\ UNCHANGED <<build, system_state, interrupts, LATB, adcvars, hwvars, cur_op, channel, i, r,
                   ret, histvars>>

\* A Deinitialize that only takes a system that is READY back to INIT.
SYSTEM_Deinitialize_SetInit_OnlyFromReady ==
    /\ pc = "deinit_state"
    /\ system_state' = IF system_state = SYS_STATE_READY THEN SYS_STATE_INIT
                       ELSE system_state
    /\ pc' = "deinit_ret"
    /\ UNCHANGED <<build, interrupts, LATB, TRISB, adcvars, hwvars, cur_op, channel, i, r, ret,
                   histvars>>

SYSTEM_Deinitialize_SetInit ==
    /\ pc = "deinit_state"
    /\ system_state' = SYS_STATE_INIT
    /\ pc' = "deinit_ret"
    /\ UNCHANGED <<build, interrupts, LATB, TRISB, adcvars, hwvars, cur_op, channel, i, r, ret,
                   histvars>>

(***************************************************************************)
(* SYSTEM_EnterSleep: part_000:106-136.                                    *)
(***************************************************************************)
Call_EnterSleep ==
    /\ AppCall("SYSTEM_EnterSleep", "sleep_set")
    /\ UNCHANGED <<sysvars, adcvars, hwvars, channel, i, r,
                   prev_op, gate_trace, woken, missed, buf_fresh, nb>>

\* An EnterSleep that does not go to sleep when a Wakeup() has just come.
SYSTEM_EnterSleep_SetSleep_HonoursWakeup ==
    /\ pc = "sleep_set"
    /\ system_state' = IF missed THEN SYS_STATE_READY ELSE SYS_STATE_SLEEP
    /\ woken' = FALSE
    /\ pc' = "sleep_loop"
    /\ UNCHANGED <<build, missed, interrupts, LATB, TRISB, adcvars, hwvars, cur_op, channel, i, r,
                   ret, prev_op, entry_state, gate_trace, buf_fresh, nb>>

SYSTEM_EnterSleep_SetSleep ==
    /\ pc = "sleep_set"
    /\ system_state' = SYS_STATE_SLEEP
    /\ woken' = FALSE
    /\ pc' = "sleep_loop"
    /\ UNCHANGED <<build, missed, interrupts, LATB, TRISB, adcvars, hwvars, cur_op, channel, i, r, ret,
                   prev_op, entry_state, gate_trace, buf_fresh, nb>>

\* A placeholder that does not wait at all.
SleepLoopCondition_NoWait == FALSE

\* part_000:130  while (system_state == SYS_STATE_SLEEP)
SleepLoopCondition == system_state = SYS_STATE_SLEEP

SYSTEM_EnterSleep_Poll ==
    /\ pc = "sleep_loop"
    /\ pc' = IF SleepLoopCondition THEN "sleep_loop" ELSE "sleep_ret"
    /\ UNCHANGED <<build, sysvars, adcvars, hwvars, cur_op, channel, i, r, ret, histvars>>

(***************************************************************************)
(* SYSTEM_Wakeup: part_000:138-145, called by the application (two         *)
(* accesses of system_state) and by the interrupt context (which the       *)
(* application cannot interrupt).                                          *)
(***************************************************************************)
\* A Wakeup that forgets the test.
WakeupCondition_Always == TRUE

\* part_000:141  if (system_state == SYS_STATE_SLEEP)
WakeupCondition == system_state = SYS_STATE_SLEEP

\* A Wakeup that leaves a sleeping system asleep.
WakeupTarget_StaysAsleep == SYS_STATE_SLEEP

\* part_000:142
WakeupTarget == SYS_STATE_READY

Call_Wakeup ==
    /\ AppCall("SYSTEM_Wakeup", "wk_test")
    /\ UNCHANGED <<sysvars, adcvars, hwvars, channel, i, r,
                   prev_op, gate_trace, woken, missed, buf_fresh, nb>>

\* The test (part_000:141) and the write (part_000:142) are two accesses of the
\* volatile system_state.
SYSTEM_Wakeup ==
    /\ pc \in {"wk_test", "wk_set"}
    /\ IF pc = "wk_test"
       THEN /\ pc' = IF WakeupCondition THEN "wk_set" ELSE "wk_ret"
            /\ UNCHANGED system_state
       ELSE /\ system_state' = WakeupTarget
            /\ pc' = "wk_ret"
    /\ UNCHANGED <<build, interrupts, LATB, TRISB, adcvars, hwvars, cur_op, channel, i, r, ret,
                   histvars>>

\* An interrupt handler runs SYSTEM_Wakeup() to its end between two steps of
\* the application; none is delivered while interrupts are disabled.
ISR_Wakeup ==
    /\ interrupts
    /\ system_state' = IF WakeupCondition THEN WakeupTarget ELSE system_state
    /\ woken' = (woken \/ pc = "sleep_loop")
    /\ missed' = (missed \/ pc = "sleep_set")
    /\ UNCHANGED <<build, interrupts, LATB, TRISB, adcvars, hwvars, appvars,
                   prev_op, entry_state, gate_trace, buf_fresh, nb>>

(***************************************************************************)
(* SYSTEM_Reset: part_000:147-170.                                         *)
(***************************************************************************)
Call_Reset ==
    /\ AppCall("SYSTEM_Reset", "reset_set")
    /\ UNCHANGED <<sysvars, adcvars, hwvars, channel, i, r,
                   prev_op, gate_trace, woken, missed, buf_fresh, nb>>

\* A Reset that marks the system as failed.
SYSTEM_Reset_SetInit_MarksError ==
    /\ pc = "reset_set"
    /\ system_state' = SYS_STATE_ERROR
    /\ pc' = "reset_loop"
    /\ UNCHANGED <<build, interrupts, LATB, TRISB, adcvars, hwvars, cur_op, channel, i, r, ret,
                   histvars>>

SYSTEM_Reset_SetInit ==
    /\ pc = "reset_set"
    /\ system_state' = SYS_STATE_INIT
    /\ pc' = "reset_loop"
    /\ UNCHANGED <<build, interrupts, LATB, TRISB, adcvars, hwvars, cur_op, channel, i, r, ret,
                   histvars>>

\* A Reset whose holding loop ends.
SYSTEM_Reset_Hold_Returns ==
    /\ pc = "reset_loop"
    /\ pc' = "idle"
    /\ prev_op' = cur_op
    /\ cur_op' = "none"
    /\ entry_state' = NoValue
    /\ UNCHANGED <<build, sysvars, adcvars, hwvars, channel, i, r, ret,
                   gate_trace, woken, missed, buf_fresh, nb>>

\* part_000:169  while (1) { __builtin_nop(); }
SYSTEM_Reset_Hold ==
    /\ pc = "reset_loop"
    /\ pc' = "reset_loop"
    /\ UNCHANGED <<build, sysvars, adcvars, hwvars, cur_op, channel, i, r, ret, histvars>>

(***************************************************************************)
(* SYSTEM_GetClockFrequency: part_000:194-198; SYSTEM_GetState: 200-203.   *)
(***************************************************************************)
Call_GetClockFrequency ==
    /\ AppCall("SYSTEM_GetClockFrequency", "clk_body")
    /\ UNCHANGED <<sysvars, adcvars, hwvars, channel, i, r,
                   prev_op, gate_trace, woken, missed, buf_fresh, nb>>

SYSTEM_GetClockFrequency ==
    /\ pc = "clk_body"
    /\ ret' = <<FCY(osc_mode)>>    \* (uint32_t)FCY: every FCY is below 2^32
    /\ pc' = "clk_ret"
    /\ UNCHANGED <<build, sysvars, adcvars, hwvars, cur_op, channel, i, r, histvars>>

Call_GetState ==
    /\ AppCall("SYSTEM_GetState", "gs_body")
    /\ UNCHANGED <<sysvars, adcvars, hwvars, channel, i, r,
                   prev_op, gate_trace, woken, missed, buf_fresh, nb>>

SYSTEM_GetState ==
    /\ pc = "gs_body"
    /\ ret' = <<system_state>>
    /\ pc' = "gs_ret"
    /\ UNCHANGED <<build, sysvars, adcvars, hwvars, cur_op, channel, i, r, histvars>>

(***************************************************************************)
(* The state at power-on reset, before main() has called anything.         *)
(***************************************************************************)
InitRegisters ==
    /\ interrupts = TRUE
    /\ LATB \in ResetLatValues
    /\ TRISB = PortBLedPins
    /\ AD1CON1 = [ADON |-> 0, SAMP |-> 0, DONE |-> 0, FORM |-> 0, SSRC |-> 0, ASAM |-> 0]
    /\ AD1CON2 = [SMPI |-> 0]
    /\ AD1CON3 = [SAMC |-> 0, ADCS |-> 0]
    /\ AD1CHS0 = [CH0SA |-> 0]
    /\ ADC1BUF0 \in ResetBufValues
    /\ adc_last_result = 0
    /\ converting = FALSE
    /\ conv_ch = 0
    /\ pc = "idle"
    /\ cur_op = "none"
    /\ channel = 0
    /\ i = 0
    /\ r = 0
    /\ ret = NoValue
    /\ prev_op = "none"
    /\ entry_state = NoValue
    /\ gate_trace = <<>>
    /\ woken = FALSE
    /\ missed = FALSE
    /\ buf_fresh = FALSE
    /\ nb = NoValue

\* The build as the repository configures it, on the device it targets.
InitBuild ==
    /\ caps = ConverterRegisters
    /\ osc_mode = SelectedOscMode

Init ==
    /\ system_state = SYS_STATE_INIT
    /\ InitRegisters
    /\ InitBuild

\* The lifecycle functions taken alone: entered with any value of the enum.
InitAnyState ==
    /\ system_state \in System_State_t
    /\ InitRegisters
    /\ InitBuild

\* The lifecycle functions in a build with any of the oscillator options.
InitAnyOsc ==
    /\ system_state \in System_State_t
    /\ InitRegisters
    /\ ADC1BUF0 = 0
    /\ caps = ConverterRegisters
    /\ osc_mode \in OscModes

(***************************************************************************)
(* An application that uses the system lifecycle, and the interrupt        *)
(* context beside it.                                                      *)
(***************************************************************************)
NextSys ==
    \/ Call_Initialize \/ SYSTEM_Initialize_Disable \/ ports_init_LATB
    \/ ports_init_TRISB \/ SYSTEM_Initialize_SetReady \/ SYSTEM_Initialize_Enable
    \/ Call_Deinitialize \/ SYSTEM_Deinitialize_TRISB \/ SYSTEM_Deinitialize_SetInit
    \/ Call_EnterSleep \/ SYSTEM_EnterSleep_SetSleep \/ SYSTEM_EnterSleep_Poll
    \/ Call_Wakeup \/ SYSTEM_Wakeup
    \/ Call_Reset \/ SYSTEM_Reset_SetInit \/ SYSTEM_Reset_Hold
    \/ Call_EnableInterrupts \/ Do_EnableInterrupts
    \/ Call_DisableInterrupts \/ Do_DisableInterrupts
    \/ Call_GetClockFrequency \/ SYSTEM_GetClockFrequency
    \/ Call_GetState \/ SYSTEM_GetState
    \/ AppReturn
    \/ ISR_Wakeup

SpecSys == Init /\ [][NextSys]_vars

SpecSysAnyState == InitAnyState /\ [][NextSys]_vars

\* The processor keeps executing the polling loop of SYSTEM_EnterSleep
\* (part_000:129-132): an iteration that can leave the loop is taken.
SpecSysFair ==
    /\ Init
    /\ [][NextSys]_vars
    /\ WF_vars(SYSTEM_EnterSleep_Poll)

SpecSysAnyOsc == InitAnyOsc /\ [][NextSys]_vars

(***************************************************************************)
(* The ADC driver, ADC.c.  Built for the device, AD1CON1, AD1CON2, AD1CON3, *)
(* AD1CHS0 and ADC1BUF0 are defined by <xc.h>; every access to a register   *)
(* is inside an #ifdef of its name, and is compiled out where the header    *)
(* does not define it.                                                      *)
(*                                                                         *)
(* The converter, as the driver uses it (manual mode, ADC.c:21,29-34):     *)
(*   - setting SAMP connects the sample capacitor to the input CH0SA       *)
(*     selects and starts a new sample, which abandons a conversion still  *)
(*     in flight;                                                          *)
(*   - clearing SAMP while the converter is on ends the sample and starts  *)
(*     the conversion (ADC.c:83); DONE is the status of the current        *)
(*     conversion (ADC.c:109), so the hardware clears it there;            *)
(*   - the hardware ends the conversion by loading ADC1BUF0 and setting    *)
(*     DONE (ADC.c:94,99);                                                 *)
(*   - clearing ADON abandons a conversion in flight.                      *)
(***************************************************************************)
\* #ifdef reg
Defined(reg) == reg \in caps

RECURSIVE BitAnd(_, _)
\* a & b on non-negative integers
BitAnd(a, b) ==
    IF a = 0 \/ b = 0 THEN 0
    ELSE (a % 2) * (b % 2) + 2 * BitAnd(a \div 2, b \div 2)

\* A driver that hands the buffer on as it is.
MaskResult_NoMask(v) == v

\* ADC.c:105,126  r & ADC_MAX_VALUE
MaskResult(v) == BitAnd(v, ADC_MAX_VALUE)

\* ADC.c:72  the uint8_t channel assigned to the CH0SA bit-field
ToCH0SA(ch) == ch % (2 ^ CH0SA_BITS)

AdcReturnPcs == {"adc_init_ret", "ss_ret", "rsb_ret", "icd_ret", "gr_ret"}

AdcReturn ==
    /\ pc \in AdcReturnPcs
    /\ pc' = "idle"
    /\ prev_op' = cur_op
    /\ cur_op' = "none"
    /\ entry_state' = NoValue
    /\ ret' = NoValue
    /\ r' = 0
    /\ nb' = IF pc = "gr_ret" THEN NoValue ELSE nb
    /\ UNCHANGED <<build, sysvars, adcvars, hwvars, channel, i, gate_trace, woken, missed, buf_fresh>>

(***************************************************************************)
(* ADC_Init: ADC.c:22-65, one step for each register access.               *)
(***************************************************************************)
AdcInitPcs == <<"adc_init_adon0", "adc_init_con1", "adc_init_form", "adc_init_ssrc",
                "adc_init_asam", "adc_init_con2", "adc_init_smpi", "adc_init_con3",
                "adc_init_samc", "adc_init_adcs", "adc_init_chs0", "adc_init_buf",
                "adc_init_adon1">>

Call_ADC_Init ==
    /\ AppCall("ADC_Init", AdcInitPcs[1])
    /\ nb' = NoValue
    /\ UNCHANGED <<sysvars, adcvars, hwvars, channel, i, r,
                   prev_op, gate_trace, woken, missed, buf_fresh>>

\* An ADC_Init that powers the converter on before it configures it.
AdcInitCON1_PowerOnFirst(k) ==
    CASE ~Defined("AD1CON1") -> AD1CON1
      [] k = 1  -> [AD1CON1 EXCEPT !.ADON = 1]
      [] k = 2  -> [ADON |-> 1, SAMP |-> 0, DONE |-> 0, FORM |-> 0, SSRC |-> 0, ASAM |-> 0]
      [] k = 3  -> [AD1CON1 EXCEPT !.FORM = 0]
      [] k = 4  -> [AD1CON1 EXCEPT !.SSRC = 0]
      [] k = 5  -> [AD1CON1 EXCEPT !.ASAM = 0]
      [] OTHER  -> AD1CON1

\* The registers after the access at position k of ADC_Init.
AdcInitCON1(k) ==
    CASE ~Defined("AD1CON1") -> AD1CON1
      [] k = 1  -> [AD1CON1 EXCEPT !.ADON = 0]
      [] k = 2  -> [ADON |-> 0, SAMP |-> 0, DONE |-> 0, FORM |-> 0, SSRC |-> 0, ASAM |-> 0]
      [] k = 3  -> [AD1CON1 EXCEPT !.FORM = 0]
      [] k = 4  -> [AD1CON1 EXCEPT !.SSRC = 0]
      [] k = 5  -> [AD1CON1 EXCEPT !.ASAM = 0]
      [] k = 13 -> [AD1CON1 EXCEPT !.ADON = 1]
      [] OTHER  -> AD1CON1

AdcInitCON2(k) ==
    CASE ~Defined("AD1CON2") -> AD1CON2
      [] k \in {6, 7} -> [SMPI |-> 0]
      [] OTHER  -> AD1CON2

AdcInitCON3(k) ==
    CASE ~Defined("AD1CON3") -> AD1CON3
      [] k = 8  -> [SAMC |-> 0, ADCS |-> 0]
      [] k = 9  -> [AD1CON3 EXCEPT !.SAMC = ADC_SAMPLE_TIME]
      [] k = 10 -> [AD1CON3 EXCEPT !.ADCS = ADC_ADCS]
      [] OTHER  -> AD1CON3

AdcInitCHS0(k) ==
    CASE ~Defined("AD1CHS0") -> AD1CHS0
      [] k = 11 -> [CH0SA |-> 0]
      [] OTHER  -> AD1CHS0

ADC_Init ==
    \E k \in 1 .. Len(AdcInitPcs) :
        /\ pc = AdcInitPcs[k]
        /\ AD1CON1' = AdcInitCON1(k)
        /\ AD1CON2' = AdcInitCON2(k)
        /\ AD1CON3' = AdcInitCON3(k)
        /\ AD1CHS0' = AdcInitCHS0(k)
        \* turning the converter off abandons the conversion in flight
        /\ converting' = IF AdcInitCON1(k).ADON = 0 THEN FALSE ELSE converting
        \* ADC.c:57  tmp = ADC1BUF0 reads the buffer and changes nothing
        /\ pc' = IF k < Len(AdcInitPcs) THEN AdcInitPcs[k + 1] ELSE "adc_init_ret"
        /\ UNCHANGED <<build, sysvars, ADC1BUF0, adc_last_result, conv_ch, cur_op, channel, i, r,
                       ret, histvars>>

(***************************************************************************)
(* ADC_StartSingle: ADC.c:68-87.                                           *)
(***************************************************************************)
Call_ADC_StartSingle ==
    \E ch \in ChannelInputs :
        /\ AppCall("ADC_StartSingle", "ss_mux")
        /\ channel' = ch
        /\ nb' = <<ch, "started">>
        /\ UNCHANGED <<sysvars, adcvars, hwvars, i, r,
                       prev_op, gate_trace, woken, missed, buf_fresh>>

\* ADC.c:71-73
ADC_StartSingle_SelectChannel ==
    /\ pc = "ss_mux"
    /\ AD1CHS0' = IF Defined("AD1CHS0")
                  THEN [AD1CHS0 EXCEPT !.CH0SA = ToCH0SA(channel)]
                  ELSE AD1CHS0
    /\ pc' = "ss_samp1"
    /\ UNCHANGED <<build, sysvars, AD1CON1, AD1CON2, AD1CON3, ADC1BUF0, adc_last_result, hwvars,
                   cur_op, channel, i, r, ret, histvars>>

\* ADC.c:76-78, and the initialisation of the loop variable of ADC.c:81
ADC_StartSingle_SampleOn ==
    /\ pc = "ss_samp1"
    /\ IF Defined("AD1CON1")
       THEN /\ AD1CON1' = [AD1CON1 EXCEPT !.SAMP = 1]
            /\ converting' = FALSE
            /\ buf_fresh' = FALSE
       ELSE UNCHANGED <<AD1CON1, converting, buf_fresh>>
    /\ i' = 0
    /\ pc' = "ss_delay"
    /\ UNCHANGED <<build, sysvars, AD1CON2, AD1CON3, AD1CHS0, ADC1BUF0, adc_last_result, conv_ch,
                   cur_op, channel, r, ret, prev_op, entry_state, gate_trace, woken, missed, nb>>

\* A StartSingle whose acquisition delay is cut short after one iteration.
ADC_StartSingle_Delay_CutShort ==
    /\ pc = "ss_delay"
    /\ IF i < 1
       THEN i' = i + 1 /\ pc' = "ss_delay"
       ELSE i' = 0 /\ pc' = "ss_samp0"
    /\ UNCHANGED <<build, sysvars, adcvars, hwvars, cur_op, channel, r, ret, histvars>>

\* ADC.c:81  for (volatile int i = 0; i < 60; ++i) { __builtin_nop(); }
ADC_StartSingle_Delay ==
    /\ pc = "ss_delay"
    /\ IF i < AcqDelayIterations
       THEN i' = i + 1 /\ pc' = "ss_delay"
       ELSE i' = 0 /\ pc' = "ss_samp0"
    /\ UNCHANGED <<build, sysvars, adcvars, hwvars, cur_op, channel, r, ret, histvars>>

\* ADC.c:84-86; the function returns to the application or into
\* ADC_ReadSingleBlocking (ADC.c:92).
ADC_StartSingle_SampleOff ==
    /\ pc = "ss_samp0"
    /\ LET starts == AD1CON1.ADON = 1 /\ AD1CON1.SAMP = 1 /\ AD1CON1.SSRC = 0 IN
        IF Defined("AD1CON1")
        THEN /\ AD1CON1' = [AD1CON1 EXCEPT !.SAMP = 0,
                                           !.DONE = IF starts THEN 0 ELSE AD1CON1.DONE]
             /\ converting' = starts
             /\ conv_ch' = IF starts THEN AD1CHS0.CH0SA ELSE conv_ch
        ELSE UNCHANGED <<AD1CON1, converting, conv_ch>>
    /\ pc' = IF cur_op = "ADC_ReadSingleBlocking" THEN "rsb_wait" ELSE "ss_ret"
    /\ UNCHANGED <<build, sysvars, AD1CON2, AD1CON3, AD1CHS0, ADC1BUF0, adc_last_result,
                   cur_op, channel, i, r, ret, histvars>>

\* The hardware ends the conversion in flight.
HW_ConversionComplete ==
    /\ converting
    /\ converting' = FALSE
    /\ ADC1BUF0' = AnalogLevel(conv_ch)
    /\ AD1CON1' = [AD1CON1 EXCEPT !.DONE = 1]
    /\ buf_fresh' = TRUE
    /\ UNCHANGED <<build, sysvars, AD1CON2, AD1CON3, AD1CHS0, adc_last_result, conv_ch, appvars,
                   prev_op, entry_state, gate_trace, woken, missed, nb>>

(***************************************************************************)
(* ADC_ReadSingleBlocking: ADC.c:90-107.                                   *)
(***************************************************************************)
\* ADC.c:92  the call enters ADC_StartSingle(channel)
Call_ADC_ReadSingleBlocking ==
    \E ch \in ChannelInputs :
        /\ AppCall("ADC_ReadSingleBlocking", "ss_mux")
        /\ channel' = ch
        /\ nb' = NoValue
        /\ UNCHANGED <<sysvars, adcvars, hwvars, i, r,
                       prev_op, gate_trace, woken, missed, buf_fresh>>

\* A driver that reads the buffer without waiting.
WaitCondition_NoWait == FALSE

\* A wait that gives up when no conversion is in flight.
WaitCondition_GivesUp == Defined("AD1CON1") /\ AD1CON1.DONE = 0 /\ converting

\* A wait that polls the flag in a build that has no AD1CON1.
WaitCondition_NoIfdef == AD1CON1.DONE = 0

\* ADC.c:94-97  #ifdef AD1CON1  while (!AD1CON1bits.DONE)
WaitCondition == Defined("AD1CON1") /\ AD1CON1.DONE = 0

\* ADC.c:98-102,122-125  uint16_t r = 0;  #ifdef ADC1BUF0  r = ADC1BUF0;
ReadADC1BUF0 == IF Defined("ADC1BUF0") THEN ADC1BUF0 ELSE 0

\* ADC.c:112-116  #ifdef AD1CON1  (bool)AD1CON1bits.DONE  #else  true
ReadDONE == IF Defined("AD1CON1") THEN AD1CON1.DONE ELSE 1

ADC_ReadSingleBlocking_Wait ==
    /\ pc = "rsb_wait"
    /\ pc' = IF WaitCondition THEN "rsb_wait" ELSE "rsb_read"
    /\ UNCHANGED <<build, sysvars, adcvars, hwvars, cur_op, channel, i, r, ret, histvars>>

\* ADC.c:100-106: r = ADC1BUF0; adc_last_result = r & ADC_MAX_VALUE;
\* return adc_last_result;
ADC_ReadSingleBlocking_Result ==
    /\ pc \in {"rsb_read", "rsb_store", "rsb_load"}
    /\ CASE pc = "rsb_read" ->
              /\ r' = ReadADC1BUF0
              /\ pc' = "rsb_store"
              /\ UNCHANGED <<adc_last_result, ret>>
         [] pc = "rsb_store" ->
              /\ adc_last_result' = MaskResult(r)
              /\ pc' = "rsb_load"
              /\ UNCHANGED <<r, ret>>
         [] pc = "rsb_load" ->
              /\ ret' = <<adc_last_result>>
              /\ pc' = "rsb_ret"
              /\ UNCHANGED <<r, adc_last_result>>
    /\ UNCHANGED <<build, sysvars, AD1CON1, AD1CON2, AD1CON3, AD1CHS0, ADC1BUF0, hwvars,
                   cur_op, channel, i, histvars>>

(***************************************************************************)
(* ADC_IsConversionDone: ADC.c:110-117.                                    *)
(***************************************************************************)
Call_ADC_IsConversionDone ==
    /\ AppCall("ADC_IsConversionDone", "icd_body")
    /\ UNCHANGED <<sysvars, adcvars, hwvars, channel, i, r,
                   prev_op, gate_trace, woken, missed, buf_fresh, nb>>

\* ADC.c:113,115
ADC_IsConversionDone ==
    /\ pc = "icd_body"
    /\ ret' = <<ReadDONE>>
    /\ nb' = IF nb # NoValue /\ ReadDONE = 1 THEN <<nb[1], "done">> ELSE nb
    /\ pc' = "icd_ret"
    /\ UNCHANGED <<build, sysvars, adcvars, hwvars, cur_op, channel, i, r,
                   prev_op, entry_state, gate_trace, woken, missed, buf_fresh>>

(***************************************************************************)
(* ADC_GetResult: ADC.c:120-128.                                           *)
(***************************************************************************)
Call_ADC_GetResult ==
    /\ AppCall("ADC_GetResult", "gr_read")
    /\ nb' = IF nb # NoValue /\ nb[2] = "done" THEN <<nb[1], "result">> ELSE NoValue
    /\ UNCHANGED <<sysvars, adcvars, hwvars, channel, i, r,
                   prev_op, gate_trace, woken, missed, buf_fresh>>

\* A GetResult that hands back the cached value of the read before.
ADC_GetResult_Cached ==
    /\ pc \in {"gr_read", "gr_store", "gr_load"}
    /\ ret' = <<adc_last_result>>
    /\ pc' = "gr_ret"
    /\ UNCHANGED <<build, sysvars, adcvars, hwvars, cur_op, channel, i, r, histvars>>

\* ADC.c:122-127
ADC_GetResult ==
    /\ pc \in {"gr_read", "gr_store", "gr_load"}
    /\ CASE pc = "gr_read" ->
              /\ r' = ReadADC1BUF0
              /\ pc' = "gr_store"
              /\ UNCHANGED <<adc_last_result, ret>>
         [] pc = "gr_store" ->
              /\ adc_last_result' = MaskResult(r)
              /\ pc' = "gr_load"
              /\ UNCHANGED <<r, ret>>
         [] pc = "gr_load" ->
              /\ ret' = <<adc_last_result>>
              /\ pc' = "gr_ret"
              /\ UNCHANGED <<r, adc_last_result>>
    /\ UNCHANGED <<build, sysvars, AD1CON1, AD1CON2, AD1CON3, AD1CHS0, ADC1BUF0, hwvars,
                   cur_op, channel, i, histvars>>

(***************************************************************************)
(* An application that uses the ADC driver, and the converter beside it.   *)
(***************************************************************************)
NextADC ==
    \/ Call_ADC_Init \/ ADC_Init
    \/ Call_ADC_StartSingle \/ ADC_StartSingle_SelectChannel \/ ADC_StartSingle_SampleOn
    \/ ADC_StartSingle_Delay \/ ADC_StartSingle_SampleOff
    \/ Call_ADC_ReadSingleBlocking \/ ADC_ReadSingleBlocking_Wait
    \/ ADC_ReadSingleBlocking_Result
    \/ Call_ADC_IsConversionDone \/ ADC_IsConversionDone
    \/ Call_ADC_GetResult \/ ADC_GetResult
    \/ AdcReturn
    \/ HW_ConversionComplete

SpecADC == Init /\ [][NextADC]_vars

\* The steps of the application: the processor executes the next instruction
\* of the function it is in (there is no scheduler, ADCmain.c:73-112), and a
\* converter that has started a conversion ends it.
AdcApp ==
    \/ Call_ADC_Init \/ ADC_Init
    \/ Call_ADC_StartSingle \/ ADC_StartSingle_SelectChannel \/ ADC_StartSingle_SampleOn
    \/ ADC_StartSingle_Delay \/ ADC_StartSingle_SampleOff
    \/ Call_ADC_ReadSingleBlocking \/ ADC_ReadSingleBlocking_Wait
    \/ ADC_ReadSingleBlocking_Result
    \/ Call_ADC_IsConversionDone \/ ADC_IsConversionDone
    \/ Call_ADC_GetResult \/ ADC_GetResult
    \/ AdcReturn

SpecADCFair ==
    /\ Init
    /\ [][NextADC]_vars
    /\ WF_vars(AdcApp)
    /\ WF_vars(HW_ConversionComplete)

(***************************************************************************)
(* An application that uses both modules, as the firmware does               *)
(* (ADCmain.c:73-112 calls SYSTEM_Initialize() and then the ADC driver): it  *)
(* calls the functions of both that write state, and reaches the interrupt  *)
(* gate through SYSTEM_Initialize() only.  It starts at reset, or right      *)
(* after a first call of SYSTEM_DisableInterrupts() has returned, so that    *)
(* the driver also runs with the interrupts disabled.                        *)
(***************************************************************************)
InitBoard ==
    /\ system_state = SYS_STATE_INIT
    /\ InitBuild
    /\ LATB = 0
    /\ TRISB = PortBLedPins
    /\ AD1CON1 = [ADON |-> 0, SAMP |-> 0, DONE |-> 0, FORM |-> 0, SSRC |-> 0, ASAM |-> 0]
    /\ AD1CON2 = [SMPI |-> 0]
    /\ AD1CON3 = [SAMC |-> 0, ADCS |-> 0]
    /\ AD1CHS0 = [CH0SA |-> 0]
    /\ ADC1BUF0 = 65535
    /\ adc_last_result = 0
    /\ converting = FALSE
    /\ conv_ch = 0
    /\ pc = "idle"
    /\ cur_op = "none"
    /\ channel = 0
    /\ i = 0
    /\ r = 0
    /\ ret = NoValue
    /\ entry_state = NoValue
    /\ woken = FALSE
    /\ missed = FALSE
    /\ buf_fresh = FALSE
    /\ nb = NoValue
    /\ \/ interrupts = TRUE /\ gate_trace = <<>> /\ prev_op = "none"
       \/ /\ interrupts = FALSE
          /\ gate_trace = <<"Disable">>
          /\ prev_op = "SYSTEM_DisableInterrupts"

NextBoardSys ==
    \/ Call_Initialize \/ SYSTEM_Initialize_Disable \/ ports_init_LATB
    \/ ports_init_TRISB \/ SYSTEM_Initialize_SetReady \/ SYSTEM_Initialize_Enable
    \/ Call_Deinitialize \/ SYSTEM_Deinitialize_TRISB \/ SYSTEM_Deinitialize_SetInit
    \/ Call_EnterSleep \/ SYSTEM_EnterSleep_SetSleep \/ SYSTEM_EnterSleep_Poll
    \/ Call_Wakeup \/ SYSTEM_Wakeup
    \/ Call_Reset \/ SYSTEM_Reset_SetInit \/ SYSTEM_Reset_Hold
    \/ AppReturn
    \/ ISR_Wakeup

NextBoard == NextBoardSys \/ NextADC

SpecBoard == InitBoard /\ [][NextBoard]_vars

\* The driver built against a header that defines any part of the converter.
InitAnyCaps ==
    /\ system_state = SYS_STATE_INIT
    /\ InitRegisters
    /\ LATB = 0
    /\ caps \in SUBSET ConverterRegisters
    /\ osc_mode = SelectedOscMode

SpecADCAnyCaps == InitAnyCaps /\ [][NextADC]_vars

(***************************************************************************)
(* Properties of the ADC driver.                                           *)
(***************************************************************************)

\* C1: every value ADC_ReadSingleBlocking() and ADC_GetResult() return, and
\* the cached last result, lies in 0 .. 4095, whatever ADC1BUF0 holds.
C1_ResultIn12Bits ==
    /\ adc_last_result \in 0 .. 4095
    /\ pc \in {"rsb_ret", "gr_ret"} => (Len(ret) = 1 /\ ret[1] \in 0 .. 4095)

\* GetResult has returned 4095 from a buffer that held 65535.
C1_Witness ==
    /\ pc = "gr_ret"
    /\ ADC1BUF0 = 65535
    /\ ret = <<4095>>

\* C2: ADC_ReadSingleBlocking(channel) reads the buffer and returns only once
\* the conversion its own ADC_StartSingle started has completed, and returns
\* the sample of the input the channel selects, in every sequence of calls.
C2_BlockingReadIsFresh ==
    /\ pc \in {"rsb_read", "rsb_store", "rsb_load", "rsb_ret"} =>
          /\ AD1CON1.DONE = 1
          /\ ~converting
          /\ buf_fresh
          /\ conv_ch = ToCH0SA(channel)
          /\ ADC1BUF0 = AnalogLevel(conv_ch)
    /\ pc = "rsb_ret" => ret = <<AnalogLevel(ToCH0SA(channel))>>

\* A blocking read of channel 0 has returned, called right after another
\* blocking read had returned.
C2_Witness ==
    /\ pc = "rsb_ret"
    /\ prev_op = "ADC_ReadSingleBlocking"
    /\ adc_last_result = AnalogLevel(0)
    /\ channel = 0
    /\ ret = <<AnalogLevel(0)>>

\* C3: ADC_StartSingle(channel), polling until ADC_IsConversionDone() is true,
\* then ADC_GetResult() returns what ADC_ReadSingleBlocking(channel) returns,
\* the sample of the input the channel selects, and both leave it cached.
C3_PathsAgree ==
    /\ pc = "rsb_ret" =>
          /\ ret = <<AnalogLevel(ToCH0SA(channel))>>
          /\ adc_last_result = ret[1]
    /\ (pc = "gr_ret" /\ nb # NoValue) =>
          /\ ret = <<AnalogLevel(ToCH0SA(nb[1]))>>
          /\ adc_last_result = ret[1]

\* The Start / poll / GetResult sequence on channel 9 has returned its result.
C3_Witness ==
    /\ pc = "gr_ret"
    /\ nb = <<9, "result">>
    /\ ret = <<AnalogLevel(9)>>
    /\ adc_last_result = AnalogLevel(9)

\* C10: ADC_StartSingle(channel) with a channel outside 0 .. ChannelCount - 1
\* does not start a conversion.
C10_OutOfRangeChannelRejected ==
    (pc = "ss_ret" /\ channel \notin 0 .. ChannelCount - 1) => ~converting

(***************************************************************************)
(* Properties of the system lifecycle.                                     *)
(***************************************************************************)

\* C4: once SYSTEM_EnterSleep() has written SLEEP the state stays SLEEP until
\* SYSTEM_Wakeup() runs in the interrupt context; EnterSleep does not leave
\* its loop before that, and at the moment it returns the state is READY.
C4_SleepUntilWakeup ==
    /\ (pc = "sleep_loop" /\ ~woken) => system_state = SYS_STATE_SLEEP
    /\ pc = "sleep_ret" => (woken /\ system_state = SYS_STATE_READY)

\* EnterSleep has returned after a Wakeup() of the interrupt context.
C4_Witness ==
    /\ pc = "sleep_ret"
    /\ cur_op = "SYSTEM_EnterSleep"
    /\ woken
    /\ system_state = SYS_STATE_READY

\* C5: SYSTEM_Initialize() entered in any lifecycle state returns with the
\* state READY, the first time and when it is called again right after.
\* No position inside Initialize waits for anything: its next step can be taken.
C5_InitializeEndsReady ==
    /\ pc = "init_ret" => system_state = SYS_STATE_READY
    /\ pc \in {"init_disable"} \cup InitCriticalPcs =>
          ENABLED (\/ SYSTEM_Initialize_Disable \/ ports_init_LATB \/ ports_init_TRISB
                   \/ SYSTEM_Initialize_SetReady \/ SYSTEM_Initialize_Enable)

\* The second of two Initialize calls in succession returns, entered in READY.
C5_Witness ==
    /\ pc = "init_ret"
    /\ prev_op = "SYSTEM_Initialize"
    /\ entry_state = <<SYS_STATE_READY>>
    /\ system_state = SYS_STATE_READY

\* C6: SYSTEM_Wakeup() called in a state other than SLEEP returns with the
\* state it was called in; called in SLEEP it returns with the state READY.
C6_WakeupFrame ==
    (pc = "wk_ret" /\ cur_op = "SYSTEM_Wakeup") =>
        IF entry_state = <<SYS_STATE_SLEEP>>
        THEN system_state = SYS_STATE_READY
        ELSE entry_state = <<system_state>>

\* Wakeup() has returned after being called in ERROR, which it left alone.
C6_Witness ==
    /\ pc = "wk_ret"
    /\ cur_op = "SYSTEM_Wakeup"
    /\ entry_state = <<SYS_STATE_ERROR>>
    /\ system_state = SYS_STATE_ERROR

\* C7: from the first port write of SYSTEM_Initialize() to after the write of
\* READY, interrupts are disabled and no interrupt handler can run.
C7_InitializeCriticalSection ==
    pc \in InitCriticalPcs => (~interrupts /\ ~ENABLED ISR_Wakeup)

\* Initialize, called with interrupts enabled, is half way through the port
\* setup with interrupts off.
C7_Witness ==
    /\ pc = TrisPcs[4]
    /\ TRISB = {3, 4, 5, 6, 7}
    /\ ~interrupts
    /\ gate_trace = <<"Disable">>

\* C8: the interrupt flag is the effect of the last gate call alone: enabled
\* after SYSTEM_EnableInterrupts(), disabled after SYSTEM_DisableInterrupts(),
\* however many calls of either came before.
C8_GateIsFlat ==
    gate_trace # <<>> => (interrupts <=> gate_trace[Len(gate_trace)] = "Enable")

\* The application has called Disable, Disable, Enable: interrupts are enabled.
C8_Witness ==
    /\ pc = "en_ret"
    /\ gate_trace = <<"Disable", "Disable", "Enable">>
    /\ interrupts

\* C9: SYSTEM_Reset() writes INIT and never returns: once in its holding loop
\* the application stays there, and the state stays INIT.
C9_ResetAbsorbing ==
    /\ [](pc = "reset_loop" => system_state = SYS_STATE_INIT)
    /\ [][pc = "reset_loop" => pc' = "reset_loop"]_vars

\* Reset was called in SLEEP and holds the application with the state INIT.
C9_Witness ==
    /\ pc = "reset_loop"
    /\ cur_op = "SYSTEM_Reset"
    /\ entry_state = <<SYS_STATE_SLEEP>>
    /\ system_state = SYS_STATE_INIT
(***************************************************************************)
(* Properties of the builds.                                               *)
(***************************************************************************)

C12_ClockFrequency ==
    pc = "clk_ret" =>
        /\ Len(ret) = 1
        /\ 2 * ret[1] = FOSC(osc_mode)
        /\ osc_mode = "CONFIG_OSC_INTERNO_PLL" =>
               (FOSC_PRIM(osc_mode) = 8000000 /\ FOSC(osc_mode) = 80000000
                /\ ret = <<40000000>>)
        /\ osc_mode = "none" => (FOSC(osc_mode) = 7370000 /\ ret = <<3685000>>)

\* A build with no oscillator option: the second call in a row, made in state
\* SLEEP, has returned 3,685,000.
C12_Witness ==
    /\ pc = "clk_ret"
    /\ osc_mode = "none"
    /\ ret = <<3685000>>
    /\ system_state = SYS_STATE_SLEEP
    /\ prev_op = "SYSTEM_GetClockFrequency"
(***************************************************************************)
(* Properties of the two modules together.                                 *)
(***************************************************************************)

AdcOps == {"ADC_Init", "ADC_StartSingle", "ADC_ReadSingleBlocking",
           "ADC_IsConversionDone", "ADC_GetResult"}

\* A step the application takes in, into or out of an ADC function, and one it
\* takes in, into or out of a SYSTEM_ function.
AdcFunctionStep == pc' # pc /\ (cur_op \in AdcOps \/ cur_op' \in AdcOps)

SystemFunctionStep == pc' # pc /\ cur_op \notin AdcOps /\ cur_op' \notin AdcOps

\* C13: each module owns its state.  No step of an ADC function, and no step
\* of the converter, changes system_state or the interrupt enable; no step of
\* a SYSTEM_ function, in the application or in the interrupt handler, changes
\* a converter register (AD1CON1, AD1CON2, AD1CON3, AD1CHS0, ADC1BUF0) or
\* adc_last_result.
C13_ModulesOwnTheirState ==
    /\ [][(AdcFunctionStep \/ HW_ConversionComplete)
              => UNCHANGED <<system_state, interrupts>>]_vars
    /\ [][(SystemFunctionStep \/ ISR_Wakeup) => UNCHANGED adcvars]_vars

\* With the interrupts disabled throughout, a blocking read has returned and
\* then SYSTEM_Deinitialize() has returned: the interrupts are still disabled
\* and the converter is as the read left it.
C13_Witness ==
    /\ pc = "deinit_ret"
    /\ prev_op = "ADC_ReadSingleBlocking"
    /\ gate_trace = <<"Disable">>
    /\ ~interrupts
    /\ AD1CON1.ADON = 1
    /\ AD1CON1.DONE = 1
    /\ adc_last_result = AnalogLevel(AD1CHS0.CH0SA)
    /\ adc_last_result # 0
(***************************************************************************)
(* More properties of the system lifecycle.                                *)
(***************************************************************************)

\* C14: SYSTEM_Deinitialize() can be called in every lifecycle state: no
\* position inside it waits for anything, it returns with the state INIT, and
\* no step taken between its call and its return changes the interrupt enable.
C14_DeinitializeEndsInit ==
    /\ [](pc = "deinit_ret" => system_state = SYS_STATE_INIT)
    /\ [](pc \in {"deinit_tris", "deinit_state"} =>
              ENABLED (SYSTEM_Deinitialize_TRISB \/ SYSTEM_Deinitialize_SetInit))
    /\ [][(cur_op = "SYSTEM_Deinitialize" \/ cur_op' = "SYSTEM_Deinitialize")
              => UNCHANGED interrupts]_vars

\* Deinitialize() has returned after being called in ERROR with the interrupts
\* disabled; they are still disabled.
C14_Witness ==
    /\ pc = "deinit_ret"
    /\ entry_state = <<SYS_STATE_ERROR>>
    /\ system_state = SYS_STATE_INIT
    /\ gate_trace = <<"Disable">>
    /\ ~interrupts
(***************************************************************************)
(* More properties of the ADC driver.                                      *)
(***************************************************************************)

\* C15: a call of ADC_StartSingle() or ADC_ReadSingleBlocking() made while a
\* conversion is in flight is rejected: it never gets as far as having written
\* the multiplexer with that conversion still in flight.
C15_BusyCallRejected ==
    pc = "ss_samp1" => ~converting
\* C16: ADC_StartSingle(channel) works in a fixed order.  The multiplexer
\* holds the channel before SAMP is set; SAMP is set during the whole delay
\* loop, which the function leaves only after its 60th iteration, counted one
\* by one; SAMP is cleared after the loop and is clear when the function
\* returns, with the converter then converting or already done if it is on.
\* No position of the function waits: its next step can always be taken,
\* whatever DONE is.
C16_StartSingleOrder ==
    /\ []((pc = "ss_samp1")
              => (AD1CHS0.CH0SA = ToCH0SA(channel) /\ AD1CON1.SAMP = 0))
    /\ []((pc \in {"ss_delay", "ss_samp0"})
              => (AD1CON1.SAMP = 1 /\ AD1CHS0.CH0SA = ToCH0SA(channel)
                  /\ i \in 0 .. AcqDelayIterations))
    /\ [][(pc = "ss_delay" /\ pc' # "ss_delay")
              => (i = AcqDelayIterations /\ pc' = "ss_samp0")]_vars
    /\ [][(pc = "ss_delay" /\ pc' = "ss_delay" /\ i' # i) => i' = i + 1]_vars
    /\ [](pc = "ss_ret" =>
              /\ AD1CON1.SAMP = 0
              /\ AD1CON1.ADON = 1 => (converting \/ AD1CON1.DONE = 1))
    /\ []((pc \in {"ss_mux", "ss_samp1", "ss_delay", "ss_samp0"})
              => ENABLED <<\/ ADC_StartSingle_SelectChannel \/ ADC_StartSingle_SampleOn
                          \/ ADC_StartSingle_Delay \/ ADC_StartSingle_SampleOff>>_vars)

\* StartSingle(3) has returned with SAMP clear while the conversion it started
\* is in flight and DONE is not set.
C16_Witness ==
    /\ pc = "ss_ret"
    /\ channel = 3
    /\ AD1CHS0.CH0SA = 3
    /\ AD1CON1.SAMP = 0
    /\ AD1CON1.DONE = 0
    /\ converting
\* C17: ADC_Init() configures the converter while it is off.  Its first
\* register access clears ADON and changes nothing else; ADON is clear at
\* every later position, through the writes of AD1CON1, AD1CON2, AD1CON3 and
\* AD1CHS0 and the read that discards ADC1BUF0; the step that returns is the
\* one that sets ADON.  At the return the converter is on, not sampling and
\* not converting, with CH0SA = 0, SAMC = 4 and ADCS = 4, in whatever state
\* the converter was at the call.
C17_InitWhileOff ==
    /\ [][(pc = AdcInitPcs[1] /\ pc' # pc)
              => (/\ AD1CON1' = [AD1CON1 EXCEPT !.ADON = 0]
                  /\ UNCHANGED <<AD1CON2, AD1CON3, AD1CHS0, ADC1BUF0>>)]_vars
    /\ [](\A k \in 2 .. Len(AdcInitPcs) : pc = AdcInitPcs[k] => AD1CON1.ADON = 0)
    /\ [][(pc' = "adc_init_ret" /\ pc # "adc_init_ret")
              => (/\ pc = AdcInitPcs[Len(AdcInitPcs)]
                  /\ AD1CON1.ADON = 0
                  /\ AD1CON1' = [AD1CON1 EXCEPT !.ADON = 1]
                  /\ UNCHANGED <<AD1CON2, AD1CON3, AD1CHS0, ADC1BUF0>>)]_vars
    /\ [](pc = "adc_init_ret" =>
              /\ AD1CON1.ADON = 1
              /\ AD1CON1.SAMP = 0
              /\ ~converting
              /\ AD1CHS0.CH0SA = 0
              /\ AD1CON3.SAMC = 4
              /\ AD1CON3.ADCS = 4)

\* ADC_Init() has returned after being called with the converter on, input 9
\* selected and a conversion of input 9 started by ADC_StartSingle(9).
C17_Witness ==
    /\ pc = "adc_init_ret"
    /\ prev_op = "ADC_StartSingle"
    /\ channel = 9
    /\ conv_ch = 9
    /\ AD1CON1.DONE = 0
    /\ AD1CON1.ADON = 1
    /\ AD1CHS0.CH0SA = 0
\* C18: ADC_ReadSingleBlocking() has no timeout.  Once DONE is set the call
\* returns, and with the converter on, where the hardware ends the conversion
\* the call starts, every call returns.  While DONE is clear the caller can take
\* no step, and with no conversion in flight (a converter that is off, or
\* stuck) that stays so: the call never returns.
C18_BlockingReadNoTimeout ==
    /\ (pc = "rsb_wait" /\ AD1CON1.DONE = 1) ~> (pc = "rsb_ret")
    /\ (cur_op = "ADC_ReadSingleBlocking" /\ AD1CON1.ADON = 1) ~> (pc = "rsb_ret")
    /\ []((pc = "rsb_wait" /\ AD1CON1.DONE = 0) => ~ENABLED <<AdcApp>>_vars)
    /\ [][(pc = "rsb_wait" /\ AD1CON1.DONE = 0 /\ ~converting)
              => (pc' = "rsb_wait" /\ AD1CON1'.DONE = 0 /\ ~converting')]_vars

\* ADC_ReadSingleBlocking() called with the converter off waits for a DONE
\* that nothing will set.
C18_Witness ==
    /\ pc = "rsb_wait"
    /\ cur_op = "ADC_ReadSingleBlocking"
    /\ AD1CON1.ADON = 0
    /\ AD1CON1.DONE = 0
    /\ ~converting
(***************************************************************************)
(* The interrupt enable across SYSTEM_Initialize, and the liveness of      *)
(* SYSTEM_EnterSleep.                                                      *)
(***************************************************************************)

\* The interrupt enable at the call of the SYSTEM_Initialize() that is now
\* returning: the gate call before Initialize's own Disable and Enable set it,
\* and with no such call it is as reset left it, enabled.
EnabledAtInitializeEntry ==
    IF Len(gate_trace) >= 3
    THEN gate_trace[Len(gate_trace) - 2] = "Enable"
    ELSE TRUE

\* C19: SYSTEM_Initialize() returns with the interrupt enable as it was at the
\* call: enabled if it was enabled, disabled if it was disabled.
C19_InitializeRestoresInterrupts ==
    pc = "init_ret" => (interrupts = EnabledAtInitializeEntry)
\* C20: once the interrupt handler has called SYSTEM_Wakeup() while
\* SYSTEM_EnterSleep() polls in state SLEEP, which takes the interrupts
\* enabled, EnterSleep returns.  As long as no Wakeup() has been called,
\* EnterSleep stays in its loop, and with the interrupts disabled nothing can
\* end that: it never returns.
C20_SleepLiveness ==
    /\ (pc = "sleep_loop" /\ woken) ~> (pc = "sleep_ret")
    /\ [][(pc = "sleep_loop" /\ ~woken /\ ~woken') => pc' = "sleep_loop"]_vars
    /\ [][(pc = "sleep_loop" /\ ~woken) => (woken' => interrupts)]_vars
    /\ []((pc = "sleep_loop" /\ ~woken /\ ~interrupts) => ~ENABLED <<NextSys>>_vars)

\* The interrupt handler has called Wakeup() during the loop of EnterSleep,
\* which has not yet polled the state again.
C20_Witness ==
    /\ pc = "sleep_loop"
    /\ cur_op = "SYSTEM_EnterSleep"
    /\ woken
    /\ interrupts
    /\ system_state = SYS_STATE_READY
\* C21: a SYSTEM_Wakeup() the interrupt handler runs after SYSTEM_EnterSleep()
\* was called and before it has written SLEEP is lost: it changes nothing of
\* the program's state, EnterSleep then writes SLEEP and cannot leave its loop
\* until a later Wakeup() comes.  The loop is left only after a Wakeup() that
\* ran while the state was SLEEP and took it to READY.
C21_LostWakeup ==
    /\ [][(pc = "sleep_set" /\ pc' = "sleep_set")
              => UNCHANGED <<sysvars, adcvars, hwvars, appvars>>]_vars
    /\ []((pc = "sleep_loop" /\ missed /\ ~woken)
              => (/\ system_state = SYS_STATE_SLEEP
                  /\ ~ENABLED <<SYSTEM_EnterSleep_Poll>>_vars))
    /\ [][(pc = "sleep_loop" /\ pc' = "sleep_ret") => woken]_vars
    /\ [][(~woken /\ woken')
              => (/\ pc = "sleep_loop"
                  /\ interrupts
                  /\ system_state = SYS_STATE_SLEEP
                  /\ system_state' = SYS_STATE_READY)]_vars

\* EnterSleep has written SLEEP after a Wakeup() that came too early, and
\* polls; no later Wakeup() has come.
C21_Witness ==
    /\ pc = "sleep_loop"
    /\ cur_op = "SYSTEM_EnterSleep"
    /\ missed
    /\ ~woken
    /\ interrupts
    /\ system_state = SYS_STATE_SLEEP
\* C22: from reset, whatever the application and the interrupt handler call of
\* SYSTEM_Initialize, SYSTEM_Deinitialize, SYSTEM_EnterSleep, SYSTEM_Wakeup and
\* SYSTEM_Reset, in whatever order, the state is INIT, READY or SLEEP: BUSY
\* and ERROR are never reached.
C22_OnlyInitReadySleep ==
    /\ system_state \in {SYS_STATE_INIT, SYS_STATE_READY, SYS_STATE_SLEEP}
    /\ system_state \notin {SYS_STATE_BUSY, SYS_STATE_ERROR}

\* After Initialize, Deinitialize and a Wakeup() of the application, EnterSleep
\* has written SLEEP.
C22_Witness ==
    /\ pc = "sleep_loop"
    /\ system_state = SYS_STATE_SLEEP
    /\ prev_op = "SYSTEM_Wakeup"
    /\ gate_trace = <<"Disable", "Enable">>
    /\ TRISB = PortBLedPins

====
